---- MODULE Spec2Model ----
(***************************************************************************)
(* Model of src/app.py, the "Prompt Playground" Streamlit application.     *)
(*                                                                         *)
(* The script is executed from top to bottom once per user interaction.    *)
(* One script run visits, in order: client initialisation, the model       *)
(* selector handler, the system prompt update, the chat input handler      *)
(* (with get_ai_response and its polling loop) and the clear chat handler. *)
(* st.session_state persists between the runs.                             *)
(*                                                                         *)
(* Strings are sequences of tokens, so that concatenation, prefixes and    *)
(* the order of the parts of a composed string are observable.             *)
(*                                                                         *)
(* The remote service keeps every resource that was ever created; the      *)
(* model keeps the count of the identifiers it handed out and the records  *)
(* of the resources the session can still name (a resource whose           *)
(* identifier was overwritten is never addressed again by the program).    *)
(***************************************************************************)
EXTENDS Integers, Sequences, FiniteSets, TLC

\* ---------------------------------------------------------------- bounds
MaxAssistants == 4
MaxThreads == 4
MaxMsgs == 2
MaxFiles == 2

\* ------------------------------------------------------------- constants
None == 0

model_options == <<"gpt-4o", "gpt-4o-mini", "o1-preview", "o1-mini">>

Models == {model_options[i] : i \in DOMAIN model_options}

DefaultModel == "gpt-4o"

\* ---------------------------------------------------------------- strings
\* a page whose extract_text() throws
THROW == "<raises>"

\* the outcome of a block of code left by an exception
Raised == <<"<raised>">>

PdfErrorPrefix == "Error reading PDF: "

FileErrorPrefix == "Error reading file: "

Unsupported == <<"Unsupported file type">>

ContextSeparator == <<"\n\nContext from uploaded files:\n\n">>

RunFailedReply == <<"Error: ", "Assistant run failed">>

ErrorReply(desc) == <<"Error: ">> \o desc

\* str.lower() on the suffixes that occur
Lower(s) ==
  CASE s = ".TXT" -> ".txt"
    [] s = ".PDF" -> ".pdf"
    [] OTHER -> s

\* ------------------------------------------------------------------ files
\* An uploaded file: its name (stem and suffix), whether opening/parsing it
\* as a whole throws, and its parts (the pages of a PDF, the single body of
\* any other file); a part equal to THROW is a page whose extraction throws.
File(stem, suffix, bad, parts) ==
  [stem |-> stem, suffix |-> suffix, bad |-> bad, parts |-> parts]

Files ==
  { File("a", ".txt", FALSE, <<"ta">>),
    File("b", ".TXT", TRUE, <<"tb">>),
    File("c", ".csv", FALSE, <<"tc">>),
    File("d", ".json", TRUE, <<"td">>),
    File("e", ".pdf", FALSE, <<"p1", "p2">>),
    File("f", ".pdf", FALSE, <<"p1", THROW>>),
    File("g", ".PDF", TRUE, <<"p1">>),
    File("i", ".pdf", FALSE, <<"", "p2">>),
    File("h", ".md", FALSE, <<"th">>) }

FileName(f) == <<f.stem, f.suffix>>

ExcText == <<"exc">>

\* PdfText without the newline of line 44
RECURSIVE PdfText_NoNewline(_)
PdfText_NoNewline(pages) ==
  IF pages = <<>> THEN <<>>
  ELSE <<Head(pages)>> \o PdfText_NoNewline(Tail(pages))

\* lines 43-44: text += page.extract_text() + "\n" for every page
RECURSIVE PdfText(_)
PdfText(pages) ==
  IF pages = <<>> THEN <<>>
  ELSE <<Head(pages), "\n">> \o PdfText(Tail(pages))

read_pdf_content(f) ==
  IF f.bad \/ \E i \in DOMAIN f.parts : f.parts[i] = THROW
  THEN <<PdfErrorPrefix>> \o ExcText
  ELSE PdfText(f.parts)

\* the body of the try block of read_file_content: the text, or Raised
ParseFile(f) ==
  LET ext == Lower(f.suffix) IN
  CASE ext = ".pdf" -> read_pdf_content(f)
    [] ext = ".txt" -> IF f.bad THEN Raised ELSE <<f.parts[1]>>
    [] ext = ".csv" -> IF f.bad THEN Raised ELSE <<"DataFrame:", f.parts[1]>>
    [] ext = ".json" -> IF f.bad THEN Raised ELSE <<"{\n  ", f.parts[1], "\n}">>
    [] ext \in {".xlsx", ".xls"} ->
         IF f.bad THEN Raised ELSE <<"DataFrame:", f.parts[1]>>
    [] OTHER -> Unsupported

\* read_file_content without the except clause of lines 73-74
read_file_content_Uncaught(f) == ParseFile(f)

read_file_content(f) ==
  LET content == ParseFile(f) IN
  IF content = Raised THEN <<FileErrorPrefix>> \o ExcText ELSE content

\* line 175: one heading-plus-body block
FileBlock(f) ==
  <<"\n### Content from ">> \o FileName(f) \o <<":\n">>
    \o read_file_content(f) \o <<"\n">>

\* FileContents prepending each block instead of appending it
RECURSIVE FileContents_Reversed(_)
FileContents_Reversed(files) ==
  IF files = <<>> THEN <<>>
  ELSE FileContents_Reversed(Tail(files)) \o FileBlock(Head(files))

\* lines 171-175
RECURSIVE FileContents(_)
FileContents(files) ==
  IF files = <<>> THEN <<>>
  ELSE FileBlock(Head(files)) \o FileContents(Tail(files))

\* line 179
ComposePrompt(input, files) ==
  input \o ContextSeparator \o FileContents(files)

\* ------------------------------------------------------------------ state
VARIABLES
  messages,             \* st.session_state.messages
  system_prompt,        \* st.session_state.system_prompt
  assistant_id,         \* st.session_state.assistant_id (None or an id)
  thread_id,            \* st.session_state.thread_id (None or an id)
  client,               \* st.session_state.client is set
  selected_model,       \* st.session_state.selected_model
  api_key,              \* OPENAI_API_KEY is in the environment
  system_prompt_input,  \* value of the text area
  uploaded_files,       \* value of the file uploader
  event,                \* the widget interaction that started the script run
  pc,                   \* position of the script run
  halt,                 \* how the last script run was cut short, if it was
  calls,                \* remote calls issued by the handler being executed
  next_assistant,       \* number of assistants created by the remote service
  next_thread,          \* number of threads created by the remote service
  assistants,           \* remote: assistant id -> [model, instructions]
  threads,              \* remote: thread id -> messages, oldest first
  run,                  \* remote: status of the run being polled
  run_status,           \* get_ai_response: the status retrieved last (line 109)
  exc                   \* get_ai_response: the remote call that raised (line 123)

vars ==
  <<messages, system_prompt, assistant_id, thread_id, client, selected_model,
    api_key, system_prompt_input, uploaded_files, event, pc, halt, calls,
    next_assistant, next_thread, assistants, threads, run, run_status, exc>>

session == <<messages, system_prompt, assistant_id, thread_id, client, selected_model>>

widgets == <<system_prompt_input, uploaded_files>>

remote == <<next_assistant, next_thread, assistants, threads, run>>

locals == <<run_status, exc>>

\* -------------------------------------------------------------- input sets
Prompts == {<<"hi">>, <<"ok">>}

PromptInputs == {<<>>, <<"B">>}

SessionUploads == {<<>>, <<File("a", ".txt", FALSE, <<"ta">>)>>}

Replies == {<<"R">>}

RECURSIVE FileLists(_)
FileLists(n) ==
  IF n = 0 THEN {<<>>}
  ELSE LET shorter == FileLists(n - 1) IN
       shorter \cup {Append(l, f) : l \in {s \in shorter : Len(s) = n - 1}, f \in Files}

Msg(role, content) == [role |-> role, content |-> content]

NoEvent == [type |-> "none", model |-> "", prompt |-> <<>>]

\* lines 19-30: the session state before the first script run
Init ==
  /\ messages = <<>>
  /\ system_prompt = <<>>
  /\ assistant_id = None
  /\ thread_id = None
  /\ client = FALSE
  /\ selected_model = DefaultModel
  /\ api_key \in BOOLEAN
  /\ system_prompt_input = <<>>
  /\ uploaded_files = <<>>
  /\ event = NoEvent
  /\ pc = "rerun"
  /\ halt = "none"
  /\ calls = {}
  /\ next_assistant = 0
  /\ next_thread = 0
  /\ assistants = <<>>
  /\ threads = <<>>
  /\ run = "none"
  /\ run_status = "none"
  /\ exc = "none"

\* ------------------------------------------------------------ script runs
\* The head of every script run: lines 19-36.  The session state exists
\* already; the client is created once the API key is in the environment.
BeginRun(ev) ==
  /\ event' = ev
  /\ client' = (client \/ api_key)
  /\ pc' = "sidebar_model"
  /\ halt' = "none"
  /\ calls' = {}

\* the remote identifiers a chain of script runs may consume stay in bounds
Room ==
  /\ next_assistant + 2 <= MaxAssistants
  /\ next_thread + 2 <= MaxThreads

\* the ways an uncaught exception ends the script run
Uncaught ==
  {"threads.create raised", "read_file_content raised", "get_ai_response raised"}

\* the script run ends: st.stop(), an uncaught exception or the last line
EndRun(how) ==
  /\ pc' = "idle"
  /\ halt' = how
  /\ event' = NoEvent

\* st.rerun(): the script run is abandoned and another one is queued
StRerun ==
  /\ pc' = "rerun"
  /\ event' = NoEvent
  /\ UNCHANGED halt

\* the first script run of the session and the one queued by st.rerun()
Rerun ==
  /\ pc = "rerun"
  /\ BeginRun(NoEvent)
  /\ UNCHANGED <<messages, system_prompt, assistant_id, thread_id,
                 selected_model, api_key, widgets, remote, locals>>

\* the environment (.env file, load_dotenv at line 14) gains the API key
SetApiKey ==
  /\ pc = "idle"
  /\ ~api_key
  /\ api_key' = TRUE
  /\ UNCHANGED <<session, widgets, event, pc, halt, calls, remote, locals>>

\* lines 134-139: the user picks another entry of the selectbox
SelectModel(m) ==
  /\ pc = "idle"
  /\ Room
  /\ m # selected_model
  /\ BeginRun([type |-> "model", model |-> m, prompt |-> <<>>])
  /\ UNCHANGED <<messages, system_prompt, assistant_id, thread_id,
                 selected_model, api_key, widgets, remote, locals>>

\* lines 156-160: the user edits the text area
EditPrompt(text) ==
  /\ pc = "idle"
  /\ Room
  /\ text # system_prompt_input
  /\ system_prompt_input' = text
  /\ BeginRun([type |-> "prompt", model |-> "", prompt |-> <<>>])
  /\ UNCHANGED <<messages, system_prompt, assistant_id, thread_id,
                 selected_model, api_key, uploaded_files, remote, locals>>

\* lines 164-168: the user changes the uploaded files
UploadFiles(files) ==
  /\ pc = "idle"
  /\ Room
  /\ files # uploaded_files
  /\ uploaded_files' = files
  /\ BeginRun([type |-> "files", model |-> "", prompt |-> <<>>])
  /\ UNCHANGED <<messages, system_prompt, assistant_id, thread_id,
                 selected_model, api_key, system_prompt_input, remote, locals>>

\* line 205: the user submits the chat input
SubmitChat(prompt) ==
  /\ pc = "idle"
  /\ Room
  /\ Len(messages) + 2 <= MaxMsgs
  /\ BeginRun([type |-> "chat", model |-> "", prompt |-> prompt])
  /\ UNCHANGED <<messages, system_prompt, assistant_id, thread_id,
                 selected_model, api_key, widgets, remote, locals>>

\* line 231: the user presses the Clear Chat button
ClickClear ==
  /\ pc = "idle"
  /\ Room
  /\ BeginRun([type |-> "clear", model |-> "", prompt |-> <<>>])
  /\ UNCHANGED <<messages, system_prompt, assistant_id, thread_id,
                 selected_model, api_key, widgets, remote, locals>>

\* ------------------------------------------------------- remote resources
\* initialize_assistant answering with the stored identifier when there is
\* one, as if the existing assistant had been updated
initialize_assistant_Reuses(ok) ==
  IF ok
  THEN IF assistant_id # None THEN assistant_id ELSE next_assistant + 1
  ELSE None

\* initialize_assistant answering with an identifier although the call failed
initialize_assistant_NoNone(ok) == next_assistant + 1

\* lines 76-89: the identifier returned by initialize_assistant, given
\* whether client.beta.assistants.create succeeds
initialize_assistant(ok) == IF ok THEN next_assistant + 1 ELSE None

\* the remote effect of assistants.create (lines 80-85)
RemoteCreateAssistant(ok, instructions, model) ==
  IF ok
  THEN /\ next_assistant' = next_assistant + 1
       /\ assistants' =
            (next_assistant + 1 :> [model |-> model, instructions |-> instructions])
  ELSE UNCHANGED <<next_assistant, assistants>>

\* the remote effect of a successful threads.create, and the stored id
\* (lines 149-150, 189-190, 234-235)
NewThread ==
  /\ next_thread' = next_thread + 1
  /\ threads' = (next_thread + 1 :> <<>>)
  /\ thread_id' = next_thread + 1

\* ---------------------------------------------------------- model selector
\* the value returned by the selectbox (lines 135-139)
SelectedModelWidget ==
  IF event.type = "model" THEN event.model ELSE selected_model

\* ModelChangeThread without line 151: the history survives the model change
ModelChangeThread_KeepsHistory(okT) ==
  IF okT
  THEN /\ NewThread
       /\ UNCHANGED messages
       /\ StRerun
  ELSE /\ EndRun("threads.create raised")
       /\ UNCHANGED <<messages, thread_id, next_thread, threads>>

\* lines 149-152: the thread is created, stored, the history is cleared
ModelChangeThread(okT) ==
  IF okT
  THEN /\ NewThread
       /\ messages' = <<>>
       /\ StRerun
  ELSE /\ EndRun("threads.create raised")
       /\ UNCHANGED <<messages, thread_id, next_thread, threads>>

\* lines 141-152
ModelChange ==
  /\ pc = "sidebar_model"
  /\ IF SelectedModelWidget # selected_model
     THEN /\ selected_model' = SelectedModelWidget
          /\ IF client
             THEN \E okA \in BOOLEAN :
                    LET new_id == initialize_assistant(okA) IN
                    /\ RemoteCreateAssistant(okA, system_prompt, selected_model')
                    /\ IF new_id # None
                       THEN /\ assistant_id' = new_id
                            /\ calls' = {"assistants.create", "threads.create"}
                            /\ \E okT \in BOOLEAN : ModelChangeThread(okT)
                       ELSE /\ pc' = "sidebar_prompt"
                            /\ calls' = {"assistants.create"}
                            /\ UNCHANGED <<assistant_id, messages, thread_id,
                                           next_thread, threads, event, halt>>
             ELSE /\ pc' = "sidebar_prompt"
                  /\ calls' = {}
                  /\ UNCHANGED <<assistant_id, messages, thread_id, event, halt,
                                 next_assistant, assistants, next_thread, threads>>
     ELSE /\ pc' = "sidebar_prompt"
          /\ calls' = {}
          /\ UNCHANGED <<selected_model, assistant_id, messages, thread_id,
                         event, halt, next_assistant, assistants, next_thread,
                         threads>>
  /\ UNCHANGED <<system_prompt, client, api_key, widgets, run, locals>>

\* ------------------------------------------------------------ system prompt
\* EnsureThread without the test of line 188
EnsureThread_Always(okT) ==
  IF okT
  THEN /\ NewThread
       /\ pc' = "chat"
       /\ UNCHANGED <<event, halt>>
  ELSE /\ EndRun("threads.create raised")
       /\ UNCHANGED <<thread_id, next_thread, threads>>

\* lines 187-190: a thread is created only when none is stored
EnsureThread(okT) ==
  IF thread_id = None
  THEN IF okT
       THEN /\ NewThread
            /\ pc' = "chat"
            /\ UNCHANGED <<event, halt>>
       ELSE /\ EndRun("threads.create raised")
            /\ UNCHANGED <<thread_id, next_thread, threads>>
  ELSE /\ pc' = "chat"
       /\ UNCHANGED <<thread_id, next_thread, threads, event, halt>>

\* lines 170-190.  An exception leaving read_file_content would leave the
\* loop of lines 173-175 and end the script run.
PromptUpdate ==
  /\ pc = "sidebar_prompt"
  /\ IF \E i \in DOMAIN uploaded_files : read_file_content(uploaded_files[i]) = Raised
     THEN /\ EndRun("read_file_content raised")
          /\ calls' = {}
          /\ UNCHANGED <<system_prompt, assistant_id, thread_id, next_assistant,
                         assistants, next_thread, threads>>
     ELSE LET file_contents == FileContents(uploaded_files) IN
          IF system_prompt_input # <<>> \/ file_contents # <<>>
          THEN /\ system_prompt' = ComposePrompt(system_prompt_input, uploaded_files)
               /\ IF client
                  THEN \E okA \in BOOLEAN :
                         LET new_id == initialize_assistant(okA) IN
                         /\ RemoteCreateAssistant(okA, system_prompt', selected_model)
                         /\ IF new_id # None
                            THEN /\ assistant_id' = new_id
                                 /\ \E okT \in BOOLEAN : EnsureThread(okT)
                                 /\ calls' = IF thread_id = None
                                             THEN {"assistants.create", "threads.create"}
                                             ELSE {"assistants.create"}
                            ELSE /\ pc' = "chat"
                                 /\ calls' = {"assistants.create"}
                                 /\ UNCHANGED <<assistant_id, thread_id, next_thread,
                                                threads, event, halt>>
                  ELSE /\ pc' = "chat"
                       /\ calls' = {}
                       /\ UNCHANGED <<assistant_id, thread_id, next_assistant,
                                      assistants, next_thread, threads, event, halt>>
          ELSE /\ pc' = "chat"
               /\ calls' = {}
               /\ UNCHANGED <<system_prompt, assistant_id, thread_id,
                              next_assistant, assistants, next_thread, threads,
                              event, halt>>
  /\ UNCHANGED <<messages, client, selected_model, api_key, widgets, run, locals>>

\* --------------------------------------------------------------- chat input
\* NoClient with the check of line 206 left out
NoClient_Unchecked == FALSE

\* lines 206, 210: the conditions under which the handler stops the script
NoClient == ~client

\* NotInitialized with the check of line 210 left out
NotInitialized_Unchecked == FALSE

NotInitialized == assistant_id = None \/ thread_id = None

\* str(e) for the exception raised by a remote call
ExcDesc(call) == <<call, " failed">>

\* ExceptReply without the except clause: the exception leaves the function
ExceptReply_Uncaught(call) == Raised

\* lines 123-124: the value returned when a remote call raised
ExceptReply(call) == ErrorReply(ExcDesc(call))

\* Deliver putting the reply in front of the history
Deliver_Prepends(msgs, response) ==
  /\ run' = "none"
  /\ messages' = <<Msg("assistant", response)>> \o msgs
  /\ pc' = "clear"
  /\ UNCHANGED <<event, halt>>

\* Deliver storing the reply over the last entry instead of appending it
Deliver_Overwrites(msgs, response) ==
  /\ run' = "none"
  /\ messages' = Append(SubSeq(msgs, 1, Len(msgs) - 1), Msg("assistant", response))
  /\ pc' = "clear"
  /\ UNCHANGED <<event, halt>>

\* lines 222-228: the value returned by get_ai_response is written and
\* appended; an exception leaving get_ai_response would end the script run
Deliver(msgs, response) ==
  /\ run' = "none"
  /\ IF response = Raised
     THEN /\ messages' = msgs
          /\ EndRun("get_ai_response raised")
     ELSE /\ messages' = Append(msgs, Msg("assistant", response))
          /\ pc' = "clear"
          /\ UNCHANGED <<event, halt>>

\* lines 205-228 up to the creation of the run (lines 95-105)
ChatInput ==
  /\ pc = "chat"
  /\ IF event.type = "chat"
     THEN IF NoClient
          THEN /\ EndRun("stop_no_client")
               /\ calls' = {}
               /\ UNCHANGED <<messages, threads, run, locals>>
          ELSE IF NotInitialized
          THEN /\ EndRun("stop_not_initialized")
               /\ calls' = {}
               /\ UNCHANGED <<messages, threads, run, locals>>
          ELSE LET with_user == Append(messages, Msg("user", event.prompt)) IN
               \E okM \in BOOLEAN :
                 IF okM
                 THEN /\ threads' = [threads EXCEPT
                            ![thread_id] = Append(@, Msg("user", event.prompt))]
                      /\ calls' = {"messages.create", "runs.create"}
                      /\ \E okR \in BOOLEAN :
                           IF okR
                           THEN /\ run' = "queued"
                                /\ messages' = with_user
                                /\ pc' = "poll"
                                /\ UNCHANGED <<event, halt, locals>>
                           ELSE /\ exc' = "runs.create"
                                /\ UNCHANGED run_status
                                /\ Deliver(with_user, ExceptReply("runs.create"))
                 ELSE /\ calls' = {"messages.create"}
                      /\ exc' = "messages.create"
                      /\ UNCHANGED <<threads, run_status>>
                      /\ Deliver(with_user, ExceptReply("messages.create"))
     ELSE /\ pc' = "clear"
          /\ calls' = {}
          /\ UNCHANGED <<messages, threads, run, locals, event, halt>>
  /\ UNCHANGED <<system_prompt, assistant_id, thread_id, client, selected_model,
                 api_key, widgets, next_assistant, next_thread, assistants>>

\* PollOutcome returning on every status that is not 'completed'
PollOutcome_ElseReturn(status) ==
  CASE status = "completed" -> "break"
    [] OTHER -> "return"

\* PollOutcome without the branch of lines 115-116
PollOutcome_NoFailed(status) ==
  CASE status = "completed" -> "break"
    [] OTHER -> "sleep"

\* lines 113-117: what the loop does with a retrieved status
PollOutcome(status) ==
  CASE status = "completed" -> "break"
    [] status = "failed" -> "return"
    [] OTHER -> "sleep"

\* lines 108-117: one iteration of the polling loop whose retrieval answers
Poll ==
  /\ pc = "poll"
  /\ calls' = calls \cup {"runs.retrieve"}
  /\ run_status' = run
  /\ UNCHANGED exc
  /\ CASE PollOutcome(run_status') = "break" ->
            /\ pc' = "list"
            /\ UNCHANGED <<messages, run, event, halt>>
       [] PollOutcome(run_status') = "return" ->
            Deliver(messages, RunFailedReply)
       [] OTHER ->
            /\ pc' = "poll"
            /\ UNCHANGED <<messages, run, event, halt>>
  /\ UNCHANGED <<system_prompt, assistant_id, thread_id, client, selected_model,
                 api_key, widgets, next_assistant, next_thread, assistants,
                 threads>>

\* lines 109-112, 123-124: an iteration whose retrieval raises
PollRaises ==
  /\ pc = "poll"
  /\ calls' = calls \cup {"runs.retrieve"}
  /\ exc' = "runs.retrieve"
  /\ UNCHANGED run_status
  /\ Deliver(messages, ExceptReply("runs.retrieve"))
  /\ UNCHANGED <<system_prompt, assistant_id, thread_id, client, selected_model,
                 api_key, widgets, next_assistant, next_thread, assistants,
                 threads>>

RECURSIVE Reverse(_)
Reverse(seq) ==
  IF seq = <<>> THEN <<>> ELSE Append(Reverse(Tail(seq)), Head(seq))

\* MessagesList answering in the order the messages were added
MessagesList_OldestFirst(tid) == threads[tid]

\* the remote messages.list call: the messages of the thread, newest first
MessagesList(tid) == Reverse(threads[tid])

\* lines 119-121
ListMessages ==
  /\ pc = "list"
  /\ calls' = calls \cup {"messages.list"}
  /\ \E ok \in BOOLEAN :
       IF ok /\ MessagesList(thread_id) # <<>>
       THEN /\ UNCHANGED locals
            /\ Deliver(messages, MessagesList(thread_id)[1].content)
       ELSE /\ exc' = "messages.list"
            /\ UNCHANGED run_status
            /\ Deliver(messages, ExceptReply("messages.list"))
  /\ UNCHANGED <<system_prompt, assistant_id, thread_id, client, selected_model,
                 api_key, widgets, next_assistant, next_thread, assistants,
                 threads>>

\* the remote service works on the run: queued, in progress, then completed
\* (the reply is added to the thread), failed, or expired
RemoteRun ==
  /\ pc = "poll"
  /\ \/ /\ run = "queued"
        /\ run' = "in_progress"
        /\ UNCHANGED threads
     \/ /\ run = "in_progress"
        /\ \E reply \in Replies :
             /\ run' = "completed"
             /\ threads' = [threads EXCEPT
                   ![thread_id] = Append(@, Msg("assistant", reply))]
     \/ /\ run = "in_progress"
        /\ run' \in {"failed", "expired"}
        /\ UNCHANGED threads
  /\ UNCHANGED <<session, api_key, widgets, event, pc, halt, calls,
                 next_assistant, next_thread, assistants, locals>>

\* --------------------------------------------------------------- clear chat
\* ClearRecreatesThread testing the client alone
ClearRecreatesThread_ClientOnly == client

\* ClearRecreatesThread never holding: the thread outlives the history
ClearRecreatesThread_Never == FALSE

\* line 232: the condition under which Clear Chat creates a new thread
ClearRecreatesThread == client /\ thread_id # None

\* lines 230-237
ClearChat ==
  /\ pc = "clear"
  /\ IF event.type = "clear"
     THEN IF ClearRecreatesThread
          THEN /\ calls' = {"threads.create"}
               /\ \E okT \in BOOLEAN :
                    IF okT
                    THEN /\ NewThread
                         /\ messages' = <<>>
                         /\ StRerun
                    ELSE /\ EndRun("threads.create raised")
                         /\ UNCHANGED <<messages, thread_id, next_thread, threads>>
          ELSE /\ calls' = {}
               /\ messages' = <<>>
               /\ StRerun
               /\ UNCHANGED <<thread_id, next_thread, threads>>
     ELSE /\ calls' = {}
          /\ EndRun(halt)
          /\ UNCHANGED <<messages, thread_id, next_thread, threads>>
  /\ run_status' = "none"
  /\ exc' = "none"
  /\ UNCHANGED <<system_prompt, assistant_id, client, selected_model, api_key,
                 widgets, next_assistant, assistants, run>>

\* ------------------------------------------------------------ specification
Next ==
  \/ Rerun
  \/ SetApiKey
  \/ \E m \in Models : SelectModel(m)
  \/ \E text \in PromptInputs : EditPrompt(text)
  \/ \E files \in SessionUploads : UploadFiles(files)
  \/ \E prompt \in Prompts : SubmitChat(prompt)
  \/ ClickClear
  \/ ModelChange
  \/ PromptUpdate
  \/ ChatInput
  \/ Poll
  \/ PollRaises
  \/ ListMessages
  \/ RemoteRun
  \/ ClearChat

Spec == Init /\ [][Next]_vars

\* The script run is a sequential program that keeps executing: the polling
\* loop and the statements after it are taken whenever they can be.  Nothing
\* obliges a retrieval to raise, so no fairness is stated for PollRaises.
FairSpec == Spec /\ WF_vars(Poll) /\ WF_vars(ListMessages)

\* The document loader and the prompt composer on their own: a fresh session
\* whose first interaction uploads files and enters a base prompt; the
\* script run is at the system prompt update.
InitFiles ==
  /\ messages = <<>>
  /\ system_prompt = <<>>
  /\ assistant_id = None
  /\ thread_id = None
  /\ client \in BOOLEAN
  /\ selected_model = DefaultModel
  /\ api_key = client
  /\ system_prompt_input \in PromptInputs
  /\ uploaded_files \in FileLists(MaxFiles)
  /\ event = [type |-> "files", model |-> "", prompt |-> <<>>]
  /\ pc = "sidebar_prompt"
  /\ halt = "none"
  /\ calls = {}
  /\ next_assistant = 0
  /\ next_thread = 0
  /\ assistants = <<>>
  /\ threads = <<>>
  /\ run = "none"
  /\ run_status = "none"
  /\ exc = "none"

NextFiles ==
  \/ PromptUpdate
  \/ ChatInput
  \/ ClearChat

SpecFiles == InitFiles /\ [][NextFiles]_vars

TypeOK ==
  /\ client \in BOOLEAN
  /\ selected_model \in Models
  /\ assistant_id \in 0..next_assistant
  /\ thread_id \in 0..next_thread
  /\ pc \in {"idle", "rerun", "sidebar_model", "sidebar_prompt", "chat", "poll",
             "list", "clear"}
  /\ run_status \in {"none", "queued", "in_progress", "completed", "failed", "expired"}
  /\ exc \in {"none", "messages.create", "runs.create", "runs.retrieve", "messages.list"}

\* ------------------------------------------------------------------- claims
Last(seq) == seq[Len(seq)]

\* the step taken is the model change handler acting on a changed selection
ModelChangeEvent == pc = "sidebar_model" /\ SelectedModelWidget # selected_model

C2_NoClientNoRemoteCall ==
  [][(pc = "chat" /\ event.type = "chat" /\ ~client) =>
       /\ calls = {} /\ calls' = {}
       /\ remote' = remote /\ next_assistant = 0 /\ next_thread = 0
       /\ run = "none"
       /\ messages' = messages
       /\ halt' = "stop_no_client" /\ pc' = "idle"]_vars

C2_Witness ==
  /\ halt = "stop_no_client"
  /\ pc = "idle"
  /\ ~client
  /\ calls = {}
  /\ messages = <<>>
  /\ system_prompt # <<>>

\* C3: when the run of a send is observed with status 'failed', the message
\* list afterwards is the list before the observation, whose last entry is
\* the user's message, followed by an assistant message whose text is
\* exactly "Error: Assistant run failed".
C3_FailedRunReply ==
  [][(pc = "poll" /\ run_status' = "failed" /\ pc' # "poll") =>
       /\ messages' = Append(messages,
             Msg("assistant", <<"Error: ", "Assistant run failed">>))
       /\ Last(messages) = Msg("user", event.prompt)
       /\ halt' = "none"]_vars

C3_Witness ==
  /\ pc = "clear"
  /\ run_status = "failed"
  /\ Len(messages) = 2
  /\ messages[1].role = "user"
  /\ messages[2].role = "assistant"

\* C4: get_ai_response never propagates a fault: when the message-append
\* call, the run-creation call, a status-retrieval call or the message-list
\* call raised, the script run goes on, and the message list ends with the
\* user's message followed by an assistant reply of the form
\* "Error: <description>".
C4_FaultBecomesReply ==
  exc # "none" =>
    /\ pc = "clear"
    /\ halt = "none"
    /\ Len(messages) >= 2
    /\ Last(messages).role = "assistant"
    /\ Len(Last(messages).content) > 1
    /\ Last(messages).content[1] = "Error: "
    /\ Last(messages).content[2] = exc
    /\ messages[Len(messages) - 1] = Msg("user", event.prompt)

C4_Witness ==
  /\ exc = "messages.list"
  /\ pc = "clear"
  /\ Last(messages).content[1] = "Error: "

\* the step issued the assistant-creation call and the call failed
AssistantCreationFailed ==
  /\ pc \in {"sidebar_model", "sidebar_prompt"}
  /\ "assistants.create" \in calls'
  /\ next_assistant' = next_assistant

\* C5: when the assistant-creation call fails in the prompt-change path or
\* the model-change path, the stored assistant identifier, the stored thread
\* identifier and the message list keep the values they had.
C5_AssistantFailureKeepsState ==
  [][AssistantCreationFailed =>
       /\ assistant_id' = assistant_id
       /\ thread_id' = thread_id
       /\ messages' = messages
       /\ assistants' = assistants]_vars

C5_Witness ==
  /\ pc = "sidebar_prompt"
  /\ calls = {"assistants.create"}
  /\ assistant_id # None /\ assistant_id \in DOMAIN assistants
  /\ thread_id # None
  /\ messages # <<>>

\* the step issued the thread-creation call and the call failed
ThreadCreationFailed ==
  /\ pc \in {"sidebar_model", "sidebar_prompt", "clear"}
  /\ "threads.create" \in calls'
  /\ next_thread' = next_thread

\* C6: when the thread-creation call fails in the prompt-change path, the
\* model-change path or the clear-chat path, the failure is recovered locally
\* (the script run is not ended by it) and the stored assistant identifier
\* and thread identifier are both retained unchanged.
C6_ThreadFailureRecovered ==
  [][ThreadCreationFailed =>
       /\ halt' \notin Uncaught
       /\ assistant_id' = assistant_id
       /\ thread_id' = thread_id]_vars

\* C7: a prompt or file change without model change that happens while a
\* thread identifier is stored issues no thread-creation call and leaves the
\* thread identifier and the message list unchanged; a thread is created in
\* that path only when none is stored.
C7_ThreadOnlyWhenMissing ==
  [][(pc = "sidebar_prompt" /\ event.type \in {"prompt", "files"}) =>
       /\ thread_id # None =>
            /\ "threads.create" \notin calls'
            /\ next_thread' = next_thread
            /\ threads' = threads
            /\ thread_id' = thread_id
            /\ messages' = messages
       /\ ("threads.create" \in calls' \/ next_thread' # next_thread) =>
            thread_id = None]_vars

C7_Witness ==
  /\ pc = "chat"
  /\ event.type \in {"prompt", "files"}
  /\ calls = {"assistants.create"}
  /\ assistant_id = next_assistant
  /\ thread_id # None
  /\ messages # <<>>

\* C8: after the run is created get_ai_response keeps polling, and once the
\* status of the run has become 'completed' or 'failed' the call eventually
\* returns (its value is appended and the script run goes on).
C8_PollingReturns ==
  (pc = "poll" /\ run \in {"completed", "failed"}) ~> (pc = "clear")

C8_Witness ==
  /\ pc = "clear"
  /\ run_status \in {"completed", "failed"}
  /\ exc = "none"
  /\ "runs.retrieve" \in calls
  /\ Last(messages).role = "assistant"

\* the heading of the block of a file, as line 175 writes it
BlockHeading(f) == <<"\n### Content from ", f.stem, f.suffix, ":\n">>

\* the number of tokens of the composed prompt before the block of file k
RECURSIVE BlockStart(_)
BlockStart(k) ==
  IF k = 1 THEN Len(system_prompt_input) + 1
  ELSE BlockStart(k - 1) + 4 + Len(read_file_content(uploaded_files[k - 1])) + 1

\* the system prompt update has run on a non-empty input
Composed ==
  /\ pc # "sidebar_prompt"
  /\ system_prompt_input # <<>> \/ uploaded_files # <<>>

\* C9: the composed system prompt is the base instruction, then the
\* separator, then one heading-plus-body block per uploaded file, the blocks
\* in upload order and nothing else.
C9_PromptOrder ==
  Composed =>
    LET n == Len(system_prompt_input) IN
    /\ SubSeq(system_prompt, 1, n) = system_prompt_input
    /\ system_prompt[n + 1] = "\n\nContext from uploaded files:\n\n"
    /\ \A k \in DOMAIN uploaded_files :
         LET f == uploaded_files[k]
             at == BlockStart(k)
             body == read_file_content(f) IN
         /\ SubSeq(system_prompt, at + 1, at + 4) = BlockHeading(f)
         /\ SubSeq(system_prompt, at + 5, at + 4 + Len(body)) = body
         /\ system_prompt[at + 5 + Len(body)] = "\n"
    /\ Len(system_prompt) = BlockStart(Len(uploaded_files) + 1)

C9_Witness ==
  /\ pc = "chat"
  /\ Len(uploaded_files) = 2
  /\ uploaded_files[1] # uploaded_files[2]
  /\ system_prompt_input = <<"B">>
  /\ Len(system_prompt) > 10

IsPdf(f) == Lower(f.suffix) = ".pdf"

\* parsing the file throws: the reader or a page of a PDF, the decoder or
\* parser of a text, table, JSON or spreadsheet file
ParsingThrows(f) ==
  \/ IsPdf(f) /\ (f.bad \/ \E i \in DOMAIN f.parts : f.parts[i] = THROW)
  \/ Lower(f.suffix) \in {".txt", ".csv", ".json", ".xlsx", ".xls"} /\ f.bad

\* C10: read_file_content never raises: the script run is not ended by an
\* exception, the body of the block of a file whose parsing throws begins
\* with "Error reading file:" (for a PDF "Error reading PDF:"), and the
\* prompt is composed with the heading of every uploaded file in it.
C10_ReadNeverRaises ==
  /\ halt # "read_file_content raised"
  /\ Composed =>
       \A k \in DOMAIN uploaded_files :
         LET f == uploaded_files[k]
             at == BlockStart(k) IN
         /\ Len(system_prompt) >= at + 6
         /\ SubSeq(system_prompt, at + 1, at + 4) = BlockHeading(f)
         /\ ParsingThrows(f) =>
              system_prompt[at + 5] =
                IF IsPdf(f) THEN "Error reading PDF: " ELSE "Error reading file: "

C10_Witness ==
  /\ pc = "chat"
  /\ Len(uploaded_files) = 2
  /\ ParsingThrows(uploaded_files[1]) /\ ~IsPdf(uploaded_files[1])
  /\ ~ParsingThrows(uploaded_files[2])
  /\ Len(system_prompt) > 10

\* the body of the block of file k in the composed prompt
BlockBody(k) ==
  LET at == BlockStart(k) IN
  SubSeq(system_prompt, at + 5,
         at + 4 + Len(read_file_content(uploaded_files[k])))

\* the uploaded file k is a PDF that the reader opens
ReadablePdf(k) == IsPdf(uploaded_files[k]) /\ ~uploaded_files[k].bad

\* C11 (as stated): the text extracted from a PDF is the page texts, each
\* followed by a newline, and a page whose extraction fails contributes
\* empty text while the text of every other page is still in the result.
C11_AsStated ==
  Composed =>
    \A k \in DOMAIN uploaded_files :
      ReadablePdf(k) =>
        LET pages == uploaded_files[k].parts IN
        /\ Len(BlockBody(k)) = 2 * Len(pages)
        /\ \A i \in DOMAIN pages :
             /\ BlockBody(k)[2 * i - 1] = IF pages[i] = THROW THEN "" ELSE pages[i]
             /\ BlockBody(k)[2 * i] = "\n"

\* C11 (amended): when no page extraction raises, the text extracted from a
\* PDF is the page texts, each followed by a newline, a page without text
\* contributing empty text; when the extraction of a page raises, the whole
\* result is "Error reading PDF: <description>" and holds the text of no page.
C11_PdfPages ==
  Composed =>
    \A k \in DOMAIN uploaded_files :
      ReadablePdf(k) =>
        LET pages == uploaded_files[k].parts IN
        IF \E i \in DOMAIN pages : pages[i] = THROW
        THEN /\ BlockBody(k)[1] = "Error reading PDF: "
             /\ \A i \in DOMAIN pages, j \in DOMAIN BlockBody(k) :
                  BlockBody(k)[j] # pages[i]
        ELSE /\ Len(BlockBody(k)) = 2 * Len(pages)
             /\ \A i \in DOMAIN pages :
                  /\ BlockBody(k)[2 * i - 1] = pages[i]
                  /\ BlockBody(k)[2 * i] = "\n"

C11_Witness ==
  /\ pc = "chat"
  /\ Len(uploaded_files) = 2
  /\ uploaded_files[1].parts = <<"", "p2">>
  /\ uploaded_files[2].parts = <<"p1", THROW>>
  /\ BlockBody(1) = <<"", "\n", "p2", "\n">>
  /\ BlockBody(2)[1] = "Error reading PDF: "

\* get_ai_response has returned to the chat input handler
Returned == pc = "clear" /\ event.type = "chat"

\* C12: get_ai_response returns only after a status retrieval observed
\* 'completed' or 'failed' or after a remote call raised; it lists the
\* messages only after 'completed'.  As long as every retrieval answers
\* another status and nothing raises, the call stays in the polling loop.
C12_ReturnsOnlyOnTerminal ==
  /\ pc = "list" => (run_status = "completed" /\ exc = "none")
  /\ Returned => (run_status \in {"completed", "failed"} \/ exc # "none")
  /\ (pc = "poll" /\ run_status # "none") =>
       (run_status \notin {"completed", "failed"} /\ exc = "none")

C12_Witness ==
  /\ pc = "poll"
  /\ run = "expired"
  /\ run_status = "expired"
  /\ "runs.retrieve" \in calls
  /\ Last(messages).role = "user"

\* C13: when the run was observed 'completed' and the listing answers, the
\* text returned and appended to the message list as the assistant reply is
\* the text of the most recent message the remote thread holds at the moment
\* it is listed.
C13_ReplyIsNewestMessage ==
  [][(pc = "list" /\ exc' = "none") =>
       LET remote_thread == threads[thread_id] IN
       /\ run_status = "completed"
       /\ messages' = Append(messages,
             Msg("assistant", remote_thread[Len(remote_thread)].content))]_vars

C13_Witness ==
  /\ Returned
  /\ run_status = "completed"
  /\ exc = "none"
  /\ "messages.list" \in calls
  /\ Len(threads[thread_id]) = 2
  /\ threads[thread_id][1].role = "user"
  /\ Last(messages) = Msg("assistant", Last(threads[thread_id]).content)
  /\ Last(messages).content \in Replies

\* C14: the send step (chat input handler and get_ai_response), whatever
\* its outcome, leaves the client handle, the assistant identifier, the
\* thread identifier, the system prompt and the selected model unchanged, so
\* that the checks of lines 206-212 accept a further send when it has
\* returned.
C14_SendKeepsSession ==
  [][(pc = "chat" \/ pc = "poll" \/ pc = "list") =>
       /\ UNCHANGED <<client, assistant_id, thread_id, system_prompt,
                      selected_model>>
       /\ (pc' = "clear" /\ (event').type = "chat") =>
            (client' /\ assistant_id' # None /\ thread_id' # None)]_vars

C14_Witness ==
  /\ Returned
  /\ run_status = "failed"
  /\ client
  /\ assistant_id # None /\ assistant_id \in DOMAIN assistants
  /\ thread_id # None /\ thread_id \in DOMAIN threads
  /\ system_prompt # <<>>
  /\ selected_model # DefaultModel

\* the step taken is the clear chat handler acting on a pressed button
ClearEvent == pc = "clear" /\ event.type = "clear"

\* C15: the clear-chat action empties the message list in every state; when
\* a client and a thread identifier are both present it also replaces the
\* thread identifier with a newly created one; in every case it leaves the
\* assistant identifier, the system prompt and the selected model unchanged.
C15_ClearChat ==
  [][ClearEvent =>
       /\ messages' = <<>>
       /\ (client /\ thread_id # None) =>
            (thread_id' > next_thread /\ thread_id' \in DOMAIN threads')
       /\ UNCHANGED <<assistant_id, system_prompt, selected_model>>]_vars

IsPrefix(s, t) == Len(s) <= Len(t) /\ SubSeq(t, 1, Len(s)) = s

\* C16: across every step of a session the message list either keeps its
\* previous contents as a prefix (entries are only appended at the end) or
\* becomes empty, and a non-empty list becomes empty only by the clear-chat
\* action or a model change.
C16_AppendOnlyOrCleared ==
  [][\/ IsPrefix(messages, messages')
     \/ /\ messages' = <<>>
        /\ ClearEvent \/ ModelChangeEvent]_vars

C16_Witness ==
  /\ Returned
  /\ Len(messages) = 2
  /\ messages[1] = Msg("user", event.prompt)
  /\ messages[2].role = "assistant"
  /\ next_thread >= 2

C18_ThreadAssistantClient ==
  /\ thread_id # None => assistant_id # None
  /\ assistant_id # None => client
  /\ (client /\ NotInitialized) => (thread_id = None /\ next_thread = 0)

C18_Witness ==
  /\ pc = "idle"
  /\ halt = "stop_not_initialized"
  /\ client
  /\ assistant_id # None
  /\ thread_id = None
  /\ next_thread = 0

\* C19: in every reachable state in which an assistant identifier is stored,
\* the remote assistant it names was created with the model that is stored
\* as the selected model.
C19_AssistantHasSelectedModel ==
  assistant_id # None =>
    /\ assistant_id \in DOMAIN assistants
    /\ assistants[assistant_id].model = selected_model

IsUser(m) == m.role = "user"

RECURSIVE IsSubsequence(_, _)
IsSubsequence(s, t) ==
  IF s = <<>> THEN TRUE
  ELSE IF t = <<>> THEN FALSE
  ELSE IF Head(s) = Head(t) THEN IsSubsequence(Tail(s), Tail(t))
  ELSE IsSubsequence(s, Tail(t))

\* C20: in every reachable state the user messages held by the stored
\* remote thread are, in order, a subsequence of the user messages of the
\* local message list: the remote thread never holds a user message that
\* the local history has dropped.
C20_RemoteUsersInLocalHistory ==
  thread_id # None =>
    /\ thread_id \in DOMAIN threads
    /\ IsSubsequence(SelectSeq(threads[thread_id], IsUser),
                     SelectSeq(messages, IsUser))

C20_Witness ==
  /\ pc = "idle"
  /\ thread_id # None
  /\ next_thread >= 2
  /\ Len(threads[thread_id]) = 2
  /\ SelectSeq(threads[thread_id], IsUser) = SelectSeq(messages, IsUser)
  /\ Len(messages) = 2

====
